---------------------------- MODULE Spec2Model ----------------------------
(***************************************************************************)
(* Model of osus-proxy: the Bancho packet codec (src/osus_proxy/bancho.rs), *)
(* the stream transcoder and mutation pipeline and the request handler      *)
(* (src/osus_proxy/mod.rs), and the shared Preferences edited by the UI     *)
(* (src/ui/mod.rs).                                                         *)
(*                                                                         *)
(* Representation of machine values:                                        *)
(*   byte strings, Vec<u8>, String  sequences of 0..255 (a String holds its *)
(*                                  UTF-8 bytes)                            *)
(*   u8, u16                        naturals                                *)
(*   i32                            integers                                *)
(*   u32, f32                       the 32 bits read as a two's complement  *)
(*                                  integer: v below 2^31 is v, v from 2^31 *)
(*                                  on is v - 2^32 (an f32 is its bits)     *)
(*   u64                            ten base-128 digits, least significant  *)
(*                                  first (digit i holds bits 7(i-1)..)     *)
(*   Option<T>                      [some |-> FALSE] or [some |-> TRUE, v]  *)
(*   io::Result<T> with a cursor    [st |-> "Ok", v, pos], [st |-> "Err"],  *)
(*                                  or [st |-> "Panic"]                     *)
(***************************************************************************)
EXTENDS Integers, Sequences, FiniteSets, TLC

\* ------------------------------------------------------------------------
\* Bounds of the model
\* ------------------------------------------------------------------------

\* most frames in one body
MaxPackets == 2

\* most segments of a message text
MaxSegments == 3

\* most rewrites of one message text
MaxRewrites == 2

\* ------------------------------------------------------------------------
\* Generic values
\* ------------------------------------------------------------------------

None == [some |-> FALSE]

Some(x) == [some |-> TRUE, v |-> x]

Ok(x, p) == [st |-> "Ok", v |-> x, pos |-> p]

Err == [st |-> "Err"]

Panic == [st |-> "Panic"]

\* 2^31, written so that every intermediate value fits a 32-bit integer
Two31m1 == 2147483647

RECURSIVE BitOr(_, _)
\* bitwise or of two naturals
BitOr(a, b) ==
    IF a = 0 THEN b
    ELSE IF b = 0 THEN a
    ELSE (IF a % 2 = 1 \/ b % 2 = 1 THEN 1 ELSE 0) + 2 * BitOr(a \div 2, b \div 2)

\* the low 31 bits of a 32-bit pattern
Low31(x) == IF x < 0 THEN (x + Two31m1) + 1 ELSE x

\* a | b on u32
U32Or(a, b) ==
    LET low == BitOr(Low31(a), Low31(b))
    IN  IF a < 0 \/ b < 0 THEN (low - Two31m1) - 1 ELSE low

RECURSIVE Shr(_, _)
\* x >> k on naturals
Shr(x, k) == IF k = 0 THEN x ELSE Shr(x \div 2, k - 1)

\* bit n of a u32 is set
U32Bit(a, n) == IF n = 31 THEN a < 0 ELSE Shr(Low31(a), n) % 2 = 1

RECURSIVE LEBytes(_, _)
\* the k low bytes of a natural, least significant first
LEBytes(n, k) == IF k = 0 THEN <<>> ELSE <<n % 256>> \o LEBytes(n \div 256, k - 1)

RECURSIVE LEVal(_)
\* the natural a little-endian byte sequence denotes
LEVal(bs) == IF bs = <<>> THEN 0 ELSE Head(bs) + 256 * LEVal(Tail(bs))

\* the four little-endian bytes of a 32-bit pattern
LE32(x) ==
    IF x < 0
    THEN LET low == Low31(x)
         IN  LEBytes(low, 3) \o <<(low \div 16777216) + 128>>
    ELSE LEBytes(x, 4)

\* the 32-bit pattern four little-endian bytes denote
Val32(bs) ==
    IF bs[4] >= 128
    THEN ((LEVal(SubSeq(bs, 1, 3)) + 16777216 * (bs[4] - 128)) - Two31m1) - 1
    ELSE LEVal(bs)

\* u64 ------------------------------------------------------------------

U64Digits == 10

U64Zero == [i \in 1..U64Digits |-> 0]

RECURSIVE NatDigits(_, _)
NatDigits(n, k) == IF k = 0 THEN <<>> ELSE <<n % 128>> \o NatDigits(n \div 128, k - 1)

\* n as u64, for a natural n
U64FromNat(n) == NatDigits(n, U64Digits)

\* the value fits a model integer
U64Fits(v) == v[5] < 8 /\ \A i \in 6..U64Digits : v[i] = 0

U64ToNat(v) == v[1] + 128 * (v[2] + 128 * (v[3] + 128 * (v[4] + 128 * v[5])))

\* value >> 7
U64Shr7(v) == Tail(v) \o <<0>>

\* u64::from(b) << shift, for a 7-bit b and shift a multiple of 7 up to 63
U64Shl(b, shift) ==
    [i \in 1..U64Digits |->
        IF i = (shift \div 7) + 1 THEN (IF shift = 63 THEN b % 2 ELSE b) ELSE 0]

U64Or(a, b) == [i \in 1..U64Digits |-> BitOr(a[i], b[i])]

\* u64::MAX - v
U64Not(v) == [i \in 1..U64Digits |-> IF i = U64Digits THEN 1 - v[i] ELSE 127 - v[i]]

\* ------------------------------------------------------------------------
\* ByteBuffer reads (cursor pos = number of bytes already consumed)
\* ------------------------------------------------------------------------

read_bytes(b, pos, size) ==
    IF pos + size > Len(b) THEN Err
    ELSE Ok(SubSeq(b, pos + 1, pos + size), pos + size)

read_u8(b, pos) ==
    LET with_r(r) ==
            IF r.st # "Ok" THEN r
            ELSE Ok(r.v[1], r.pos)
    IN  with_r(read_bytes(b, pos, 1))

read_u16(b, pos) ==
    LET with_r(r) ==
            IF r.st # "Ok" THEN r
            ELSE Ok(LEVal(r.v), r.pos)
    IN  with_r(read_bytes(b, pos, 2))

read_u32(b, pos) ==
    LET with_r(r) ==
            IF r.st # "Ok" THEN r
            ELSE Ok(Val32(r.v), r.pos)
    IN  with_r(read_bytes(b, pos, 4))

read_i32(b, pos) == read_u32(b, pos)

\* faulty variant: eight bytes are taken for the float
read_f32_wide(b, pos) ==
    LET with_r(r) ==
            IF r.st # "Ok" THEN r
            ELSE Ok(Val32(SubSeq(r.v, 1, 4)), r.pos)
    IN  with_r(read_bytes(b, pos, 8))

read_f32(b, pos) == read_u32(b, pos)

\* read_bytes(n as usize) for a u64 n: rpos + size is compared with the
\* buffer length; when the sum passes usize::MAX the addition overflows and
\* the call panics (overflow check, or the slice range that ends before it
\* starts), otherwise it reports the short buffer.
read_bytes_usize(b, pos, size) ==
    IF U64Fits(size) THEN read_bytes(b, pos, U64ToNat(size))
    ELSE IF U64Fits(U64Not(size)) /\ U64ToNat(U64Not(size)) < pos THEN Panic
    ELSE Err

\* faulty variant: the payload of an unknown packet runs to the end of the buffer
read_exact_to_end(b, pos, length) == read_bytes(b, pos, Len(b) - pos)

\* read_exact into a buffer of `length as usize` zero bytes, for a u32 length
read_exact(b, pos, length) ==
    IF length < 0 THEN Err ELSE read_bytes(b, pos, length)

\* ------------------------------------------------------------------------
\* String::from_utf8 accepts exactly the well-formed UTF-8 sequences
\* ------------------------------------------------------------------------

IsCont(c) == c >= 128 /\ c <= 191

RECURSIVE from_utf8_ok(_)
from_utf8_ok(bs) ==
    IF \A i \in 1..Len(bs) : bs[i] < 128 THEN TRUE
    ELSE LET c == bs[1]
             n == Len(bs)
         IN  IF c < 128
             THEN from_utf8_ok(SubSeq(bs, CHOOSE i \in 1..n :
                                            bs[i] >= 128 /\ \A j \in 1..(i - 1) : bs[j] < 128,
                                      n))
             ELSE IF c >= 194 /\ c <= 223
                  THEN n >= 2 /\ IsCont(bs[2]) /\ from_utf8_ok(SubSeq(bs, 3, n))
             ELSE IF c >= 224 /\ c <= 239
                  THEN /\ n >= 3
                       /\ IsCont(bs[2]) /\ IsCont(bs[3])
                       /\ (c = 224 => bs[2] >= 160)
                       /\ (c = 237 => bs[2] <= 159)
                       /\ from_utf8_ok(SubSeq(bs, 4, n))
             ELSE IF c >= 240 /\ c <= 244
                  THEN /\ n >= 4
                       /\ IsCont(bs[2]) /\ IsCont(bs[3]) /\ IsCont(bs[4])
                       /\ (c = 240 => bs[2] >= 144)
                       /\ (c = 244 => bs[2] <= 143)
                       /\ from_utf8_ok(SubSeq(bs, 5, n))
             ELSE FALSE

\* ------------------------------------------------------------------------
\* OsuReader
\* ------------------------------------------------------------------------

LEB128_HIGH_ORDER_BIT == 128

RECURSIVE read_uleb128_loop(_, _, _, _)
\* one iteration of the loop of read_uleb128, with its locals
read_uleb128_loop(b, pos, result, shift) ==
    LET with_byte(byte) ==
            IF byte.st # "Ok" THEN byte
            ELSE IF shift = 63 /\ byte.v > 1 THEN Panic
            ELSE IF byte.v \div LEB128_HIGH_ORDER_BIT = 0
                 THEN Ok(U64Or(result, U64Shl(byte.v % LEB128_HIGH_ORDER_BIT, shift)),
                         byte.pos)
                 ELSE read_uleb128_loop(b, byte.pos,
                          U64Or(result, U64Shl(byte.v % LEB128_HIGH_ORDER_BIT, shift)),
                          shift + 7)
    IN  with_byte(read_u8(b, pos))

\* faulty variant: the first byte is taken for the second septet
read_uleb128_shifted(b, pos) == read_uleb128_loop(b, pos, U64Zero, 7)

read_uleb128(b, pos) == read_uleb128_loop(b, pos, U64Zero, 0)

\* faulty variant: a length is read after the 0x00 of an empty string too
read_osu_string_length_always(b, pos) ==
    LET with_exists(exists) ==
            IF exists.st # "Ok" THEN exists
            ELSE
        LET with_str_length(str_length) ==
                IF str_length.st # "Ok" THEN str_length
                ELSE
            LET with_d(d) ==
                    IF d.st # "Ok" THEN d
                    ELSE IF from_utf8_ok(d.v) THEN d ELSE Err
            IN  with_d(read_bytes_usize(b, str_length.pos, str_length.v))
        IN  with_str_length(read_uleb128(b, exists.pos))
    IN  with_exists(read_u8(b, pos))

read_osu_string(b, pos) ==
    LET with_exists(exists) ==
            IF exists.st # "Ok" THEN exists
            ELSE IF exists.v # 11 THEN Ok(<<>>, exists.pos) ELSE
        LET with_str_length(str_length) ==
                IF str_length.st # "Ok" THEN str_length
                ELSE
            LET with_d(d) ==
                    IF d.st # "Ok" THEN d
                    ELSE IF from_utf8_ok(d.v) THEN d ELSE Err
            IN  with_d(read_bytes_usize(b, str_length.pos, str_length.v))
        IN  with_str_length(read_uleb128(b, exists.pos))
    IN  with_exists(read_u8(b, pos))

read_osu_message(b, pos) ==
    LET with_sender(sender) ==
            IF sender.st # "Ok" THEN sender
            ELSE
        LET with_text(text) ==
                IF text.st # "Ok" THEN text
                ELSE
            LET with_recipient(recipient) ==
                    IF recipient.st # "Ok" THEN recipient
                    ELSE
                LET with_sender_id(sender_id) ==
                        IF sender_id.st # "Ok" THEN sender_id
                        ELSE Ok([sender |-> sender.v, text |-> text.v,
                                recipient |-> recipient.v, sender_id |-> sender_id.v],
                                sender_id.pos)
                IN  with_sender_id(read_i32(b, recipient.pos))
            IN  with_recipient(read_osu_string(b, text.pos))
        IN  with_text(read_osu_string(b, sender.pos))
    IN  with_sender(read_osu_string(b, pos))

\* ------------------------------------------------------------------------
\* OsuWriter (each operator is the bytes the call appends)
\* ------------------------------------------------------------------------

RECURSIVE write_uleb128(_)
write_uleb128(value) ==
    LET byte == value[1]
        rest == U64Shr7(value)
    IN  IF rest # U64Zero
        THEN <<byte + LEB128_HIGH_ORDER_BIT>> \o write_uleb128(rest)
        ELSE <<byte>>

\* faulty variant: the byte length of the string is not written
write_osu_string_no_length(value) ==
    IF value = <<>> THEN <<0>> ELSE <<11>> \o value

write_osu_string(value) ==
    IF value = <<>> THEN <<0>>
    ELSE <<11>> \o write_uleb128(U64FromNat(Len(value))) \o value

write_osu_message(value) ==
    write_osu_string(value.sender) \o write_osu_string(value.text)
        \o write_osu_string(value.recipient) \o LE32(value.sender_id)

\* ------------------------------------------------------------------------
\* UserAction, Country
\* ------------------------------------------------------------------------

\* the variants of UserAction in the order of their discriminants 0..13
UserAction == <<"Idle", "Afk", "Playing", "Editing", "Modding", "Multiplayer",
                "Watching", "Unknown", "Testing", "Submitting", "Paused",
                "Lobby", "Multiplaying", "OsuDirect">>

\* faulty variant: the position in the list, counted from 1
UserAction_as_u8_one_based(action) == CHOOSE i \in 1..Len(UserAction) : UserAction[i] = action

UserAction_as_u8(action) == (CHOOSE i \in 1..Len(UserAction) : UserAction[i] = action) - 1

UserAction_from_u8(repr) ==
    IF repr < Len(UserAction) THEN UserAction[repr + 1] ELSE "Unknown"

\* the variants of Country the model uses
Country == {"Unknown", "Japan", "UnitedStates"}

Country_as_u8(country) ==
    CASE country = "Unknown" -> 0
      [] country = "Japan" -> 111
      [] country = "UnitedStates" -> 225

\* ------------------------------------------------------------------------
\* BanchoPacketHeader, BanchoPacket
\* ------------------------------------------------------------------------

HeaderLen == 7

\* BanchoPacketHeader::from_bytes, on the seven header bytes
from_bytes(bytes) ==
    [id |-> LEVal(SubSeq(bytes, 1, 2)),
     unknown |-> bytes[3],
     length |-> Val32(SubSeq(bytes, 4, 7))]

KnownIds == {0, 1, 5, 7, 25, 71, 83}

from_header_and_bytebuf(header, b, pos) ==
    CASE header.id = 0 ->
    LET with_action(action) ==
            IF action.st # "Ok" THEN action
            ELSE
        LET with_info_text(info_text) ==
                IF info_text.st # "Ok" THEN info_text
                ELSE
            LET with_map_md5(map_md5) ==
                    IF map_md5.st # "Ok" THEN map_md5
                    ELSE
                LET with_mods(mods) ==
                        IF mods.st # "Ok" THEN mods
                        ELSE
                    LET with_mode(mode) ==
                            IF mode.st # "Ok" THEN mode
                            ELSE
                        LET with_map_id(map_id) ==
                                IF map_id.st # "Ok" THEN map_id
                                ELSE Ok([kind |-> "ChangeAction",
                                        action |-> UserAction_from_u8(action.v),
                                        info_text |-> info_text.v, map_md5 |-> map_md5.v,
                                        mods |-> mods.v, mode |-> mode.v, map_id |-> map_id.v],
                                        map_id.pos)
                        IN  with_map_id(read_i32(b, mode.pos))
                    IN  with_mode(read_u8(b, mods.pos))
                IN  with_mods(read_u32(b, map_md5.pos))
            IN  with_map_md5(read_osu_string(b, info_text.pos))
        IN  with_info_text(read_osu_string(b, action.pos))
    IN  with_action(read_u8(b, pos))
      [] header.id = 1 ->
    LET with_message(message) ==
            IF message.st # "Ok" THEN message
            ELSE Ok([kind |-> "SendPublicMessage", message |-> message.v], message.pos)
    IN  with_message(read_osu_message(b, pos))
      [] header.id = 5 ->
    LET with_user_id(user_id) ==
            IF user_id.st # "Ok" THEN user_id
            ELSE Ok([kind |-> "UserId", user_id |-> user_id.v], user_id.pos)
    IN  with_user_id(read_i32(b, pos))
      [] header.id = 7 ->
    LET with_message(message) ==
            IF message.st # "Ok" THEN message
            ELSE Ok([kind |-> "SendMessage", message |-> message.v], message.pos)
    IN  with_message(read_osu_message(b, pos))
      [] header.id = 25 ->
    LET with_message(message) ==
            IF message.st # "Ok" THEN message
            ELSE Ok([kind |-> "SendPrivateMessage", message |-> message.v], message.pos)
    IN  with_message(read_osu_message(b, pos))
      [] header.id = 71 ->
    LET with_privileges_bitfield(privileges_bitfield) ==
            IF privileges_bitfield.st # "Ok" THEN privileges_bitfield
            ELSE Ok([kind |-> "Privilege", privileges_bitfield |-> privileges_bitfield.v],
                    privileges_bitfield.pos)
    IN  with_privileges_bitfield(read_u32(b, pos))
      [] header.id = 83 ->
    LET with_user_id(user_id) ==
            IF user_id.st # "Ok" THEN user_id
            ELSE
        LET with_name(name) ==
                IF name.st # "Ok" THEN name
                ELSE
            LET with_utc_offset(utc_offset) ==
                    IF utc_offset.st # "Ok" THEN utc_offset
                    ELSE
                LET with_country_code(country_code) ==
                        IF country_code.st # "Ok" THEN country_code
                        ELSE
                    LET with_bancho_privileges(bancho_privileges) ==
                            IF bancho_privileges.st # "Ok" THEN bancho_privileges
                            ELSE
                        LET with_longitude(longitude) ==
                                IF longitude.st # "Ok" THEN longitude
                                ELSE
                            LET with_latitude(latitude) ==
                                    IF latitude.st # "Ok" THEN latitude
                                    ELSE
                                LET with_global_rank(global_rank) ==
                                        IF global_rank.st # "Ok" THEN global_rank
                                        ELSE Ok([kind |-> "UserPresence", user_id |-> user_id.v,
                                                name |-> name.v, utc_offset |-> utc_offset.v,
                                                country_code |-> country_code.v,
                                                bancho_privileges |-> bancho_privileges.v,
                                                longitude |-> longitude.v,
                                                latitude |-> latitude.v,
                                                global_rank |-> global_rank.v], global_rank.pos)
                                IN  with_global_rank(read_i32(b, latitude.pos))
                            IN  with_latitude(read_f32(b, longitude.pos))
                        IN  with_longitude(read_f32(b, bancho_privileges.pos))
                    IN  with_bancho_privileges(read_u8(b, country_code.pos))
                IN  with_country_code(read_u8(b, utc_offset.pos))
            IN  with_utc_offset(read_u8(b, name.pos))
        IN  with_name(read_osu_string(b, user_id.pos))
    IN  with_user_id(read_i32(b, pos))
      [] OTHER ->
    LET with_data(data) ==
            IF data.st # "Ok" THEN data
            ELSE Ok([kind |-> "Other", id |-> header.id, data |-> data.v], data.pos)
    IN  with_data(read_exact(b, pos, header.length))

id(packet) ==
    CASE packet.kind = "ChangeAction" -> 0
      [] packet.kind = "SendPublicMessage" -> 1
      [] packet.kind = "UserId" -> 5
      [] packet.kind = "SendMessage" -> 7
      [] packet.kind = "SendPrivateMessage" -> 25
      [] packet.kind = "Privilege" -> 71
      [] packet.kind = "UserPresence" -> 83
      [] packet.kind = "Other" -> packet.id

encode(packet) ==
    CASE packet.kind = "ChangeAction" ->
            <<UserAction_as_u8(packet.action)>> \o write_osu_string(packet.info_text)
                \o write_osu_string(packet.map_md5) \o LE32(packet.mods)
                \o <<packet.mode>> \o LE32(packet.map_id)
      [] packet.kind = "SendPublicMessage" -> write_osu_message(packet.message)
      [] packet.kind = "UserId" -> LE32(packet.user_id)
      [] packet.kind = "SendMessage" -> write_osu_message(packet.message)
      [] packet.kind = "SendPrivateMessage" -> write_osu_message(packet.message)
      [] packet.kind = "Privilege" -> LE32(packet.privileges_bitfield)
      [] packet.kind = "UserPresence" ->
            LE32(packet.user_id) \o write_osu_string(packet.name)
                \o <<packet.utc_offset, packet.country_code, packet.bancho_privileges>>
                \o LE32(packet.longitude) \o LE32(packet.latitude)
                \o LE32(packet.global_rank)
      [] packet.kind = "Other" -> packet.data

\* faulty variant: the length of a message is taken from its text alone
write_header_stale(packet, data) ==
    LEBytes(id(packet), 2) \o <<0>>
        \o LE32(IF packet.kind \in {"SendPublicMessage", "SendMessage", "SendPrivateMessage"}
                THEN Len(packet.message.text) ELSE Len(data))

\* the header to_bytes writes before the payload `data`
write_header(packet, data) == LEBytes(id(packet), 2) \o <<0>> \o LE32(Len(data))

to_bytes(packet) ==
    LET data == encode(packet)
    IN  write_header(packet, data) \o data

\* ------------------------------------------------------------------------
\* Stream transcoder
\* ------------------------------------------------------------------------

\* faulty variant: bytes that cannot hold a header fail the call
read_leftover_strict(bytes, pos, packets, remaining_bytes) == [st |-> "Err"]

\* the branch of decode_bancho_packets for fewer than 7 remaining bytes:
\* the bytes are read for the log and the loop ends
read_leftover(bytes, pos, packets, remaining_bytes) ==
    LET with_leftover(leftover) ==
            IF leftover.st # "Ok" THEN leftover
            ELSE [st |-> "Ok", v |-> packets, leftover |-> leftover.v]
    IN  with_leftover(read_bytes(bytes, pos, remaining_bytes))

RECURSIVE decode_loop(_, _, _)
\* one iteration of the loop of decode_bancho_packets
decode_loop(bytes, pos, packets) ==
    IF Len(bytes) - pos = 0 THEN [st |-> "Ok", v |-> packets, leftover |-> <<>>]
    ELSE IF Len(bytes) - pos < HeaderLen
         THEN read_leftover(bytes, pos, packets, Len(bytes) - pos)
    ELSE
    LET with_header_bytes(header_bytes) ==
            IF header_bytes.st # "Ok" THEN header_bytes
            ELSE
        LET with_packet(packet) ==
                IF packet.st # "Ok" THEN packet
                ELSE decode_loop(bytes, packet.pos, Append(packets, packet.v))
        IN  with_packet(from_header_and_bytebuf(from_bytes(header_bytes.v), bytes,
                header_bytes.pos))
    IN  with_header_bytes(read_bytes(bytes, pos, HeaderLen))

decode_bancho_packets(bytes) == decode_loop(bytes, 0, <<>>)

RECURSIVE encode_bancho_packets(_)
encode_bancho_packets(packets) ==
    IF packets = <<>> THEN <<>>
    ELSE to_bytes(Head(packets)) \o encode_bancho_packets(Tail(packets))

\* ------------------------------------------------------------------------
\* Mutation pipeline
\* ------------------------------------------------------------------------

\* "ACTION is listening to"
NowPlayingMarker ==
    <<65,67,84,73,79,78,32,105,115,32,108,105,115,116,101,110,105,110,103,32,116,111>>

\* "https://osu.osus.zihad.dev/beatmapsets"
ProxyBeatmapUrl ==
    <<104,116,116,112,115,58,47,47,111,115,117,46,111,115,117,115,46,122,105,
      104,97,100,46,100,101,118,47,98,101,97,116,109,97,112,115,101,116,115>>

\* format!("https://osu.{}/beatmapsets", target_domain)
TargetBeatmapUrl(target_domain) ==
    <<104,116,116,112,115,58,47,47,111,115,117,46>> \o target_domain
        \o <<47,98,101,97,116,109,97,112,115,101,116,115>>

\* pat occurs in s at index i
MatchAt(s, i, pat) ==
    i + Len(pat) - 1 <= Len(s) /\ SubSeq(s, i, i + Len(pat) - 1) = pat

\* str::contains
contains(s, pat) == \E i \in 1..(Len(s) + 1) : MatchAt(s, i, pat)

RECURSIVE replace(_, _, _)
\* str::replace: every non-overlapping match, left to right (from not empty)
replace(s, from, to) ==
    LET matches == {i \in 1..Len(s) : MatchAt(s, i, from)}
    IN  IF matches = {} THEN s
        ELSE LET i == CHOOSE m \in matches : \A n \in matches : m <= n
             IN  SubSeq(s, 1, i - 1) \o to
                    \o replace(SubSeq(s, i + Len(from), Len(s)), from, to)

\* the rewrite of SendPublicMessage and SendPrivateMessage text
rewrite_outbound(text, target_domain) ==
    IF contains(text, NowPlayingMarker)
    THEN replace(text, ProxyBeatmapUrl, TargetBeatmapUrl(target_domain))
    ELSE text

\* "osu.ppy.sh"
DEFAULT_TARGET_DOMAIN == <<111,115,117,46,112,112,121,46,115,104>>

\* faulty variant: the inbound rewrite looks for the default domain
rewrite_inbound_default(text, target_domain) ==
    IF contains(text, NowPlayingMarker)
    THEN replace(text, TargetBeatmapUrl(DEFAULT_TARGET_DOMAIN), ProxyBeatmapUrl)
    ELSE text

\* the rewrite of SendMessage text
rewrite_inbound(text, target_domain) ==
    IF contains(text, NowPlayingMarker)
    THEN replace(text, TargetBeatmapUrl(target_domain), ProxyBeatmapUrl)
    ELSE text

\* faulty variant: the flag is added arithmetically
add_supporter_plus(privileges_bitfield) ==
    IF privileges_bitfield > Two31m1 - 4 THEN privileges_bitfield
    ELSE privileges_bitfield + 4

\* privileges_bitfield | (1 << 2)
add_supporter(privileges_bitfield) == U32Or(privileges_bitfield, 4)

\* faulty variant: OsuDirect is dropped whatever the preference
drops_packet_always(action, preferences) == action = "OsuDirect"

\* the condition under which the ChangeAction arm returns false
drops_packet(action, preferences) ==
    action = "OsuDirect" /\ preferences.fake_supporter

\* faulty variant: the id of the UserId packet is not stored
store_user_id_never(preferences, user_id) == preferences

\* the UserId arm
store_user_id(preferences, user_id) ==
    [preferences EXCEPT !.user_id = Some(user_id)]

\* the closure of retain_mut on one packet:
\* the preferences and the packet after it, and whether the packet is kept
process_packet(preferences, packet, target_domain) ==
    CASE packet.kind = "SendPublicMessage" ->
            [preferences |-> preferences, keep |-> TRUE,
             packet |-> [packet EXCEPT !.message.text =
                            rewrite_outbound(@, target_domain)]]
      [] packet.kind = "UserId" ->
            [preferences |-> store_user_id(preferences, packet.user_id),
             keep |-> TRUE, packet |-> packet]
      [] packet.kind = "SendPrivateMessage" ->
            [preferences |-> preferences, keep |-> TRUE,
             packet |-> [packet EXCEPT !.message.text =
                            rewrite_outbound(@, target_domain)]]
      [] packet.kind = "SendMessage" ->
            [preferences |-> preferences, keep |-> TRUE,
             packet |-> [packet EXCEPT !.message.text =
                            rewrite_inbound(@, target_domain)]]
      [] packet.kind = "Privilege" ->
            [preferences |-> preferences, keep |-> TRUE,
             packet |-> IF preferences.fake_supporter
                        THEN [packet EXCEPT !.privileges_bitfield = add_supporter(@)]
                        ELSE packet]
      [] packet.kind = "ChangeAction" ->
            [preferences |-> preferences, packet |-> packet,
             keep |-> ~drops_packet(packet.action, preferences)]
      [] packet.kind = "UserPresence" ->
            [preferences |-> preferences, keep |-> TRUE,
             packet |-> IF /\ preferences.fake_country.some
                           /\ preferences.user_id.some
                           /\ preferences.user_id.v = packet.user_id
                        THEN [packet EXCEPT !.country_code =
                                Country_as_u8(preferences.fake_country.v)]
                        ELSE packet]
      [] OTHER -> [preferences |-> preferences, keep |-> TRUE, packet |-> packet]

RECURSIVE process_bancho_packets_unordered(_, _, _)
\* faulty variant: a kept packet goes behind the packets that follow it
process_bancho_packets_unordered(preferences, packets, target_domain) ==
    IF packets = <<>> THEN [preferences |-> preferences, packets |-> <<>>]
    ELSE LET r == process_packet(preferences, Head(packets), target_domain)
             rest == process_bancho_packets_unordered(r.preferences, Tail(packets),
                                                      target_domain)
         IN  [preferences |-> rest.preferences,
              packets |-> IF r.keep THEN rest.packets \o <<r.packet>>
                          ELSE rest.packets]

RECURSIVE process_bancho_packets(_, _, _)
\* the preferences and the packets after the pass
process_bancho_packets(preferences, packets, target_domain) ==
    IF packets = <<>> THEN [preferences |-> preferences, packets |-> <<>>]
    ELSE LET r == process_packet(preferences, Head(packets), target_domain)
             rest == process_bancho_packets(r.preferences, Tail(packets), target_domain)
         IN  [preferences |-> rest.preferences,
              packets |-> IF r.keep THEN <<r.packet>> \o rest.packets
                          ELSE rest.packets]

\* ------------------------------------------------------------------------
\* State
\* ------------------------------------------------------------------------

VARIABLES
    preferences,   \* the shared Preferences
    lock,          \* the holder of the Preferences mutex, or "free"
    task,          \* the request tasks running handle_requests
    s_pc,          \* one body pass: "body", "decoded", "processed", "encoded",
                   \*                "redecoded", "failed"
    s_frames,      \* one body pass: the frames the body is made of
    s_tail,        \* one body pass: the bytes after the last frame
    s_domain,      \* one body pass: target_domain
    s_pre,         \* one body pass: the Preferences when the pass started
    s_decoded,     \* one body pass: result of decode_bancho_packets
    s_processed,   \* one body pass: the packets after process_bancho_packets
    s_out,         \* one body pass: result of encode_bancho_packets
    s_redecoded,   \* one body pass: the re-encoded body decoded again
    r_domain,      \* message rewriting: target_domain
    r_hist,        \* message rewriting: the text, before and after each rewrite
    r_path,        \* message rewriting: the kinds of the packets that carried it
    c_pc,          \* codec: "none", "value", "encoded", "decoded"
    c_value,       \* codec: the value, and which encoder takes it
    c_bytes,       \* codec: what the encoder wrote
    c_result       \* codec: what the decoder returned

vars == <<preferences, lock, task, s_pc, s_frames, s_tail, s_domain, s_pre,
          s_decoded, s_processed, s_out, s_redecoded, r_domain, r_hist, r_path,
          c_pc, c_value, c_bytes, c_result>>

codec_vars == <<c_pc, c_value, c_bytes, c_result>>

rewrite_vars == <<r_domain, r_hist, r_path>>

proxy_vars == <<lock, task>>

stream_vars == <<s_pc, s_frames, s_tail, s_domain, s_pre, s_decoded,
                 s_processed, s_out, s_redecoded>>

\* ------------------------------------------------------------------------
\* Inputs
\* ------------------------------------------------------------------------

\* "cmyui.xyz" (debug build default) and "ppy.sh" (release build default)
DebugServerAddress == <<99,109,121,117,105,46,120,121,122>>

ReleaseServerAddress == <<112,112,121,46,115,104>>

\* "\x01ACTION is listening to [" url "/1 a]\x01"
NowPlaying(url) == <<1>> \o NowPlayingMarker \o <<32, 91>> \o url \o <<47, 49, 32, 97, 93, 1>>

Message(text) == [sender |-> <<97>>, text |-> text, recipient |-> <<35, 111>>, sender_id |-> 7]

ChangeAction(action) ==
    [kind |-> "ChangeAction", action |-> action, info_text |-> <<>>,
     map_md5 |-> <<109>>, mods |-> 64, mode |-> 3, map_id |-> 0 - 1]

UserPresence(user_id, country_code) ==
    [kind |-> "UserPresence", user_id |-> user_id, name |-> <<110>>,
     utc_offset |-> 24, country_code |-> country_code, bancho_privileges |-> 5,
     longitude |-> 1065353216, latitude |-> (0 - Two31m1) - 1, global_rank |-> 9]

SamplePackets ==
    {ChangeAction("Idle"), ChangeAction("OsuDirect"),
     [kind |-> "SendPublicMessage", message |-> Message(NowPlaying(ProxyBeatmapUrl))],
     [kind |-> "SendMessage",
      message |-> Message(NowPlaying(TargetBeatmapUrl(DebugServerAddress)))],
     [kind |-> "SendPrivateMessage", message |-> Message(<<104, 105>>)],
     [kind |-> "UserId", user_id |-> 42],
     [kind |-> "Privilege", privileges_bitfield |-> 0],
     [kind |-> "Privilege", privileges_bitfield |-> 6],
     [kind |-> "Privilege", privileges_bitfield |-> 0 - 5],
     UserPresence(42, 225), UserPresence(99, 38),
     [kind |-> "Other", id |-> 2, data |-> <<>>],
     [kind |-> "Other", id |-> 65535, data |-> <<1, 2>>]}

Frame(i, u, l, d) == [id |-> i, unknown |-> u, length |-> l, data |-> d]

\* a string as a peer writes it: empty as 0x00, else 0x0b, the ULEB128 byte
\* length (one or two bytes for the lengths used here) and the bytes
WireString(s) ==
    IF s = <<>> THEN <<0>>
    ELSE IF Len(s) < 128 THEN <<11, Len(s)>> \o s
    ELSE <<11, 128 + (Len(s) % 128), Len(s) \div 128>> \o s

WireMessage(m) ==
    WireString(m.sender) \o WireString(m.text) \o WireString(m.recipient)
        \o LE32(m.sender_id)

\* the payload of a packet as a peer writes it
WirePayload(p) ==
    CASE p.kind = "ChangeAction" ->
            <<UserAction_as_u8(p.action)>> \o WireString(p.info_text)
                \o WireString(p.map_md5) \o LE32(p.mods) \o <<p.mode>> \o LE32(p.map_id)
      [] p.kind \in {"SendPublicMessage", "SendMessage", "SendPrivateMessage"} ->
            WireMessage(p.message)
      [] p.kind = "UserId" -> LE32(p.user_id)
      [] p.kind = "Privilege" -> LE32(p.privileges_bitfield)
      [] p.kind = "UserPresence" ->
            LE32(p.user_id) \o WireString(p.name)
                \o <<p.utc_offset, p.country_code, p.bancho_privileges>>
                \o LE32(p.longitude) \o LE32(p.latitude) \o LE32(p.global_rank)
      [] p.kind = "Other" -> p.data

\* the frame a peer sends for a packet
FrameOf(p) == Frame(id(p), 0, Len(WirePayload(p)), WirePayload(p))

\* frames no encoder of this program writes
OddFrames ==
    {Frame(2, 1, 2, <<3, 4>>),                 \* reserved byte set
     Frame(5, 0, 100, <<42, 0, 0, 0>>),         \* known id, length past the end
     Frame(3, 0, 3, <<5, 6>>),                  \* unknown id, length past the end
     Frame(0, 0, 12, <<200, 0, 0, 0, 0, 0, 0, 0, 0, 0, 0, 0>>),  \* action 200
     Frame(7, 0, 9, <<11, 1, 255, 0, 0, 0, 0, 0, 0>>),          \* invalid UTF-8
     Frame(1, 0, 11, <<11, 128, 128, 128, 128, 128, 128, 128, 128, 128, 2>>),
     Frame(25, 0, 11, <<11, 255, 255, 255, 255, 255, 255, 255, 255, 255, 1>>),
     Frame(71, 0, 2, <<4, 0>>)}                 \* payload cut short

RawFrames == {FrameOf(p) : p \in SamplePackets} \cup OddFrames

Tails == {<<>>, <<9>>, <<1, 2, 3, 4, 5, 6>>}

FrameSeqs == UNION {[1..n -> RawFrames] : n \in 0..MaxPackets}

FrameBytes(f) == LEBytes(f.id, 2) \o <<f.unknown>> \o LE32(f.length) \o f.data

RECURSIVE Flatten(_)
Flatten(frames) ==
    IF frames = <<>> THEN <<>> ELSE FrameBytes(Head(frames)) \o Flatten(Tail(frames))

\* the body on the wire
Body(frames, tail) == Flatten(frames) \o tail

\* the fields of Preferences that the pass and the UI use and that
\* Preferences::default() of src/preferences.rs does not list
DefaultFakeCountry == None

DefaultUserId == None

\* Preferences::default(), for a debug and for a release build
DefaultPreferences ==
    {[server_address |-> a, fake_supporter |-> TRUE, beatmap_mirror |-> "Chimu",
      fake_country |-> DefaultFakeCountry, user_id |-> DefaultUserId]
        : a \in {DebugServerAddress, ReleaseServerAddress}}

\* the Preferences a body pass can find
StreamPreferences ==
    {[server_address |-> DebugServerAddress, fake_supporter |-> fs,
      beatmap_mirror |-> "Chimu", fake_country |-> fc, user_id |-> u]
        : fs \in BOOLEAN, fc \in {None, Some("Japan")}, u \in {None, Some(99)}}

\* no codec value under way
CodecIdle ==
    /\ c_pc = "none"
    /\ c_value = <<>>
    /\ c_bytes = <<>>
    /\ c_result = [st |-> "None"]

\* ------------------------------------------------------------------------
\* One body pass: decode, mutate, re-encode (handle_requests), and the
\* receiver's decode of the forwarded body
\* ------------------------------------------------------------------------

StreamInit ==
    /\ preferences \in StreamPreferences
    /\ s_pre = preferences
    /\ s_frames \in FrameSeqs
    /\ s_tail \in Tails
    /\ s_domain = preferences.server_address
    /\ s_pc = "body"
    /\ s_decoded = [st |-> "None"]
    /\ s_processed = <<>>
    /\ s_out = <<>>
    /\ s_redecoded = [st |-> "None"]
    /\ lock = "free"
    /\ task = <<>>
    /\ r_domain = <<>>
    /\ r_hist = <<>>
    /\ r_path = <<>>
    /\ CodecIdle

\* decode_bancho_packets(body_bytes.as_ref()).await.unwrap()
StreamDecode ==
    /\ s_pc = "body"
    /\ s_decoded' = decode_bancho_packets(Body(s_frames, s_tail))
    /\ s_pc' = IF s_decoded'.st = "Ok" THEN "decoded" ELSE "failed"
    /\ UNCHANGED <<codec_vars, preferences, proxy_vars, rewrite_vars, s_frames, s_tail,
                   s_domain, s_pre, s_processed, s_out, s_redecoded>>

\* process_bancho_packets(&mut preferences, &mut packets, &target_domain)
StreamProcess ==
    /\ s_pc = "decoded"
    /\ LET r == process_bancho_packets(preferences, s_decoded.v, s_domain)
       IN  /\ preferences' = r.preferences
           /\ s_processed' = r.packets
    /\ s_pc' = "processed"
    /\ UNCHANGED <<codec_vars, proxy_vars, rewrite_vars, s_frames, s_tail, s_domain,
                   s_pre, s_decoded, s_out, s_redecoded>>

\* encode_bancho_packets(packets).await.unwrap()
StreamEncode ==
    /\ s_pc = "processed"
    /\ s_out' = encode_bancho_packets(s_processed)
    /\ s_pc' = "encoded"
    /\ UNCHANGED <<codec_vars, preferences, proxy_vars, rewrite_vars, s_frames, s_tail,
                   s_domain, s_pre, s_decoded, s_processed, s_redecoded>>

\* the forwarded body is decoded again
StreamRedecode ==
    /\ s_pc = "encoded"
    /\ s_redecoded' = decode_bancho_packets(s_out)
    /\ s_pc' = "redecoded"
    /\ UNCHANGED <<codec_vars, preferences, proxy_vars, rewrite_vars, s_frames, s_tail,
                   s_domain, s_pre, s_decoded, s_processed, s_out>>

StreamNext == StreamDecode \/ StreamProcess \/ StreamEncode \/ StreamRedecode

SpecStream == StreamInit /\ [][StreamNext]_vars

\* ------------------------------------------------------------------------
\* Properties of one body pass (SpecStream)
\* ------------------------------------------------------------------------

Decoded == s_pc \in {"decoded", "processed", "encoded", "redecoded"}

Processed == s_pc \in {"processed", "encoded", "redecoded"}

Encoded == s_pc \in {"encoded", "redecoded"}

RECURSIVE SplitFrames(_)
\* the frames a byte string falls into when only the header length fields are
\* followed, and the bytes left when no further frame fits
SplitFrames(bytes) ==
    IF Len(bytes) < HeaderLen THEN [frames |-> <<>>, rest |-> bytes]
    ELSE LET length == Val32(SubSeq(bytes, 4, 7))
         IN  IF length < 0 \/ HeaderLen + length > Len(bytes)
             THEN [frames |-> <<>>, rest |-> bytes]
             ELSE LET r == SplitFrames(SubSeq(bytes, HeaderLen + length + 1, Len(bytes)))
                  IN  [frames |-> <<Frame(LEVal(SubSeq(bytes, 1, 2)), bytes[3], length,
                                          SubSeq(bytes, HeaderLen + 1, HeaderLen + length))>>
                                    \o r.frames,
                       rest |-> r.rest]

\* the decoder consumes exactly the bytes of the frame
Parses(f) ==
    IF f.id \in KnownIds
    THEN \E p \in SamplePackets : id(p) = f.id /\ WirePayload(p) = f.data
    ELSE f.length = Len(f.data)

\* the frame is a complete packet with a true length field
WellFormed(f) == Parses(f) /\ f.length = Len(f.data)

\* the packet a frame that parses carries
PacketOf(f) ==
    IF f.id \in KnownIds
    THEN CHOOSE p \in SamplePackets : id(p) = f.id /\ WirePayload(p) = f.data
    ELSE [kind |-> "Other", id |-> f.id, data |-> f.data]

\* the decoder reaches frame i at its first byte
Aligned(i) == \A j \in 1..(i - 1) : Parses(s_frames[j])

\* the bytes of the body after the header of frame i
RECURSIVE BytesFrom(_)
BytesFrom(i) ==
    IF i > Len(s_frames) THEN Len(s_tail)
    ELSE HeaderLen + Len(s_frames[i].data) + BytesFrom(i + 1)

IsMessage(p) == p.kind \in {"SendPublicMessage", "SendMessage", "SendPrivateMessage"}

\* C1: in the re-encoded body every packet is a 7-byte header (the packet's
\* id, a zero byte, the length of its encoded payload) followed by that
\* payload, so that following the length fields alone splits the body into
\* exactly the packets that were encoded, with nothing left over.
C1_HeaderLengthIsPayloadLength ==
    Encoded =>
        LET sp == SplitFrames(s_out)
        IN  /\ sp.rest = <<>>
            /\ Len(sp.frames) = Len(s_processed)
            /\ \A i \in 1..Len(s_processed) :
                  /\ sp.frames[i].id = id(s_processed[i])
                  /\ sp.frames[i].unknown = 0
                  /\ sp.frames[i].length = Len(encode(s_processed[i]))
                  /\ sp.frames[i].data = encode(s_processed[i])

\* a body of two packets in which the pass changed the length of a message
C1_Witness ==
    /\ s_pc = "encoded"
    /\ Len(s_processed) = 2
    /\ Len(s_decoded.v) = 2
    /\ \E i \in 1..2 :
          /\ IsMessage(s_processed[i])
          /\ Len(s_processed[i].message.text) # Len(s_decoded.v[i].message.text)

\* C2: decoding the encoded packet sequence succeeds and returns the same
\* packets in the same order.
C2_StreamRoundTrip ==
    s_pc = "redecoded" =>
        /\ s_redecoded.st = "Ok"
        /\ s_redecoded.v = s_processed
        /\ s_redecoded.leftover = <<>>

\* two packets of different variants came back
C2_Witness ==
    /\ s_pc = "redecoded"
    /\ Len(s_processed) = 2
    /\ s_processed[1].kind # s_processed[2].kind
    /\ IsMessage(s_processed[2])
    /\ s_redecoded.st = "Ok"
    /\ Len(s_redecoded.v) = 2

\* frame i is a packet of unknown id that the decoder reaches
UnknownOnWire(i) ==
    /\ Aligned(i)
    /\ s_frames[i].id \notin KnownIds
    /\ s_frames[i].length = Len(s_frames[i].data)

\* C3 as stated: an unknown packet decodes to Other with its id and its
\* header.length payload bytes, and to_bytes gives back the original bytes.
C3_OtherByteIdentical ==
    (Decoded /\ s_decoded.st = "Ok") =>
        \A i \in 1..Len(s_frames) :
            UnknownOnWire(i) =>
                /\ i <= Len(s_decoded.v)
                /\ s_decoded.v[i] = [kind |-> "Other", id |-> s_frames[i].id,
                                     data |-> s_frames[i].data]
                /\ Len(s_decoded.v[i].data) = s_frames[i].length
                /\ to_bytes(s_decoded.v[i]) = FrameBytes(s_frames[i])

\* C3 amended: an unknown packet decodes to Other with its id and its
\* header.length payload bytes, and to_bytes gives back the original id,
\* length and payload with the reserved header byte written as 0.
C3_OtherPreservedUpToReserved ==
    (Decoded /\ s_decoded.st = "Ok") =>
        \A i \in 1..Len(s_frames) :
            UnknownOnWire(i) =>
                /\ i <= Len(s_decoded.v)
                /\ s_decoded.v[i] = [kind |-> "Other", id |-> s_frames[i].id,
                                     data |-> s_frames[i].data]
                /\ Len(s_decoded.v[i].data) = s_frames[i].length
                /\ to_bytes(s_decoded.v[i]) =
                      FrameBytes([s_frames[i] EXCEPT !.unknown = 0])

\* an unknown packet with its reserved byte set, followed by another frame
C3_Witness ==
    /\ s_pc = "decoded"
    /\ Len(s_frames) = 2
    /\ UnknownOnWire(1)
    /\ s_frames[1].unknown # 0
    /\ s_frames[1].data # <<>>
    /\ s_decoded.v[1].kind = "Other"

IsPrivilege(p) == p.kind = "Privilege"

\* C4: every Privilege packet is kept; with fake_supporter its bitfield has
\* bit 2 set and every other bit as before, without it the bitfield is as before.
C4_PrivilegeSpoof ==
    Processed =>
        LET before == SelectSeq(s_decoded.v, IsPrivilege)
            after == SelectSeq(s_processed, IsPrivilege)
        IN  /\ Len(after) = Len(before)
            /\ \A i \in 1..Len(before) : \A n \in 0..31 :
                  U32Bit(after[i].privileges_bitfield, n) =
                      (\/ U32Bit(before[i].privileges_bitfield, n)
                       \/ (s_pre.fake_supporter /\ n = 2))

\* a bitfield with bit 2 clear and bit 31 set went through with fake_supporter
C4_Witness ==
    /\ Processed
    /\ s_pre.fake_supporter
    /\ \E i \in 1..Len(s_decoded.v) :
          /\ IsPrivilege(s_decoded.v[i])
          /\ s_decoded.v[i].privileges_bitfield = 0 - 5
          /\ s_processed[i].privileges_bitfield = 0 - 1

IsChangeAction(p) == p.kind = "ChangeAction"

\* the ChangeAction packets the pass has to keep
IsKeptChangeAction(p) ==
    IsChangeAction(p) /\ ~(p.action = "OsuDirect" /\ s_pre.fake_supporter)

\* C5: with fake_supporter the ChangeAction(OsuDirect) packets are absent
\* from the output, without it they are present and unchanged; every other
\* ChangeAction packet is kept.
C5_OsuDirectSuppression ==
    Processed =>
        SelectSeq(s_processed, IsChangeAction) = SelectSeq(s_decoded.v, IsKeptChangeAction)

\* an OsuDirect packet was dropped and the ChangeAction next to it kept
C5_Witness ==
    /\ Processed
    /\ s_pre.fake_supporter
    /\ Len(s_decoded.v) = 2
    /\ s_decoded.v[1].kind = "ChangeAction" /\ s_decoded.v[1].action = "OsuDirect"
    /\ s_decoded.v[2].kind = "ChangeAction" /\ s_decoded.v[2].action = "Idle"
    /\ s_processed = <<s_decoded.v[2]>>

IsUserPresence(p) == p.kind = "UserPresence"

IsUserId(p) == p.kind = "UserId"

\* Preferences.user_id when packet k of the body is reached
StoredUserId(k) ==
    LET ids == {j \in 1..(k - 1) : IsUserId(s_decoded.v[j])}
    IN  IF ids = {} THEN s_pre.user_id
        ELSE Some(s_decoded.v[CHOOSE j \in ids : \A l \in ids : l <= j].user_id)

\* the UserPresence the claim expects for packet k of the body
ExpectedPresence(k) ==
    IF /\ s_pre.fake_country.some
       /\ StoredUserId(k).some
       /\ StoredUserId(k).v = s_decoded.v[k].user_id
    THEN [s_decoded.v[k] EXCEPT !.country_code = 111]
    ELSE s_decoded.v[k]

RECURSIVE ExpectedPresences(_)
ExpectedPresences(k) ==
    IF k > Len(s_decoded.v) THEN <<>>
    ELSE (IF IsUserPresence(s_decoded.v[k]) THEN <<ExpectedPresence(k)>> ELSE <<>>)
            \o ExpectedPresences(k + 1)

\* C6: a UserPresence gets the fake country's code iff a fake country is set
\* and its user_id is the id stored by the latest UserId packet before it
\* (of this body, else of an earlier one); nothing else of it changes, and
\* UserId packets pass unchanged.
C6_CountrySpoof ==
    Processed =>
        /\ SelectSeq(s_processed, IsUserPresence) = ExpectedPresences(1)
        /\ SelectSeq(s_processed, IsUserId) = SelectSeq(s_decoded.v, IsUserId)

\* the end-to-end scenario: UserId(42), then the presence of 42, no id stored before
C6_Witness ==
    /\ Processed
    /\ ~s_pre.user_id.some
    /\ s_pre.fake_country = Some("Japan")
    /\ Len(s_decoded.v) = 2
    /\ s_decoded.v[1] = [kind |-> "UserId", user_id |-> 42]
    /\ s_decoded.v[2] = UserPresence(42, 225)
    /\ s_processed = <<s_decoded.v[1], UserPresence(42, 111)>>

\* C8: when 1 to 6 bytes follow the complete packets of a body, decoding
\* succeeds with exactly those packets in order, the pass goes on, and the
\* forwarded body consists of the processed packets alone.
C8_LeftoverIsNotFatal ==
    (Len(s_tail) \in 1..6 /\ \A i \in 1..Len(s_frames) : WellFormed(s_frames[i])) =>
        /\ s_pc # "failed"
        /\ Decoded =>
              /\ s_decoded.st = "Ok"
              /\ s_decoded.v = [i \in 1..Len(s_frames) |-> PacketOf(s_frames[i])]
              /\ s_decoded.leftover = s_tail
        /\ Encoded =>
              /\ SplitFrames(s_out).rest = <<>>
              /\ Len(SplitFrames(s_out).frames) = Len(s_processed)

\* two packets and six trailing bytes went through the pass
C8_Witness ==
    /\ s_pc = "encoded"
    /\ Len(s_tail) = 6
    /\ Len(s_frames) = 2
    /\ \A i \in 1..2 : WellFormed(s_frames[i])
    /\ Len(s_processed) = 2

\* frame i is reached by the decoder and declares more payload bytes than
\* the buffer holds after its header
DeclaresPastEnd(i) ==
    /\ Aligned(i)
    /\ s_frames[i].length > BytesFrom(i) - HeaderLen

\* C9 as stated: a packet of any id whose length field passes the end of the
\* buffer makes decode_bancho_packets fail, and no packets are returned.
C9_LengthPastEndIsFatal ==
    (s_pc # "body" /\ \E i \in 1..Len(s_frames) : DeclaresPastEnd(i)) =>
        s_decoded.st # "Ok"

\* ------------------------------------------------------------------------
\* Message rewriting: a text carried through the pass by message packets
\* ------------------------------------------------------------------------

\* the pieces message texts are made of: the marker, the two beatmap URLs,
\* a space, and the common head of the URLs ("https://osu.")
Segments(target_domain) ==
    {NowPlayingMarker, ProxyBeatmapUrl, TargetBeatmapUrl(target_domain), <<32>>,
     <<104,116,116,112,115,58,47,47,111,115,117,46>>}

RECURSIVE Concat(_)
Concat(segs) == IF segs = <<>> THEN <<>> ELSE Head(segs) \o Concat(Tail(segs))

Texts(target_domain) ==
    {Concat(segs) : segs \in UNION {[1..n -> Segments(target_domain)] : n \in 0..MaxSegments}}

\* the text of the one message packet after process_bancho_packets
PassText(kind, text) ==
    process_bancho_packets(preferences, <<[kind |-> kind, message |-> Message(text)]>>,
                           r_domain).packets[1].message.text

RewriteInit ==
    /\ preferences \in DefaultPreferences
    /\ r_domain = preferences.server_address
    /\ r_hist \in {<<t>> : t \in Texts(r_domain)}
    /\ r_path = <<>>
    /\ lock = "free"
    /\ task = <<>>
    /\ s_pc = "none"
    /\ s_frames = <<>>
    /\ s_tail = <<>>
    /\ s_domain = <<>>
    /\ s_pre = preferences
    /\ s_decoded = [st |-> "None"]
    /\ s_processed = <<>>
    /\ s_out = <<>>
    /\ s_redecoded = [st |-> "None"]
    /\ CodecIdle

\* the text goes through the pass in a packet of the given kind
Rewrite(kind) ==
    /\ Len(r_path) < MaxRewrites
    /\ r_hist' = Append(r_hist, PassText(kind, r_hist[Len(r_hist)]))
    /\ r_path' = Append(r_path, kind)
    /\ UNCHANGED <<codec_vars, preferences, proxy_vars, stream_vars, r_domain>>

RewritePublic == Rewrite("SendPublicMessage")

RewritePrivate == Rewrite("SendPrivateMessage")

RewriteReceived == Rewrite("SendMessage")

RewriteNext == RewritePublic \/ RewritePrivate \/ RewriteReceived

SpecRewrite == RewriteInit /\ [][RewriteNext]_vars

Outbound == {"SendPublicMessage", "SendPrivateMessage"}

OutThenIn == Len(r_path) = 2 /\ r_path[1] \in Outbound /\ r_path[2] = "SendMessage"

InThenOut == Len(r_path) = 2 /\ r_path[1] = "SendMessage" /\ r_path[2] \in Outbound

\* C7 as stated: on every text with the marker the outbound and the inbound
\* rewrite undo each other, in both orders.
C7_RewritesAreInverses ==
    ((OutThenIn \/ InThenOut) /\ contains(r_hist[1], NowPlayingMarker)) =>
        r_hist[3] = r_hist[1]

\* C7 amended: inbound undoes outbound on every text with the marker that
\* holds no backend-domain beatmap URL, and outbound undoes inbound on every
\* text with the marker that holds no proxy-hostname beatmap URL.
C7_RewritesInverseOnOwnUrls ==
    /\ (/\ OutThenIn
        /\ contains(r_hist[1], NowPlayingMarker)
        /\ ~contains(r_hist[1], TargetBeatmapUrl(r_domain)))
            => r_hist[3] = r_hist[1]
    /\ (/\ InThenOut
        /\ contains(r_hist[1], NowPlayingMarker)
        /\ ~contains(r_hist[1], ProxyBeatmapUrl))
            => r_hist[3] = r_hist[1]

\* a text with the marker and a proxy URL went out, changed, and came back
C7_Witness ==
    /\ OutThenIn
    /\ contains(r_hist[1], NowPlayingMarker)
    /\ contains(r_hist[1], ProxyBeatmapUrl)
    /\ r_hist[2] # r_hist[1]
    /\ contains(r_hist[2], TargetBeatmapUrl(r_domain))
    /\ r_hist[3] = r_hist[1]

\* ------------------------------------------------------------------------
\* The proxy: request tasks running handle_requests, and the UI
\* ------------------------------------------------------------------------

Tasks == {"t1", "t2"}

\* what handle_requests distinguishes in a request:
\*   "nohost"    no Host header, or a host that is none of SUBDOMAINS
\*   "bancho"    POST / with an osu-token header
\*   "login"     POST / without an osu-token header
\*   "download"  GET /d/<id> on osu.osus.zihad.dev
\*   "other"     anything else
RequestKinds == {"nohost", "bancho", "login", "download", "other"}

\* the bodies of the POST / requests with an osu-token
RequestBodies ==
    {FrameBytes(FrameOf(ChangeAction("OsuDirect")))
        \o FrameBytes(FrameOf(ChangeAction("Idle"))) \o <<9>>,
     FrameBytes(Frame(3, 0, 3, <<5, 6>>))}

\* the bodies of the responses to POST /
ResponseBodies ==
    {FrameBytes(FrameOf([kind |-> "UserId", user_id |-> 42]))
        \o FrameBytes(FrameOf(UserPresence(42, 225))) \o <<1, 2, 3, 4, 5, 6>>,
     FrameBytes(Frame(1, 0, 11, <<11, 128, 128, 128, 128, 128, 128, 128, 128, 128, 2>>))}

Mirrors == {"ServerDefault", "Chimu"}

\* a task: where it is in handle_requests, the request it serves, and the
\* message in its hands (the request until the backend answered, then the
\* response; status 0 = no response yet)
IdleTask ==
    [pc |-> "idle", kind |-> "other", target_domain |-> <<>>, status |-> 0,
     body |-> <<>>, content_length |-> 0, packets |-> <<>>, fatal |-> FALSE]

Init ==
    /\ preferences \in DefaultPreferences
    /\ lock = "free"
    /\ task = [t \in Tasks |-> IdleTask]
    /\ s_pc = "none"
    /\ s_frames = <<>>
    /\ s_tail = <<>>
    /\ s_domain = <<>>
    /\ s_pre = preferences
    /\ s_decoded = [st |-> "None"]
    /\ s_processed = <<>>
    /\ s_out = <<>>
    /\ s_redecoded = [st |-> "None"]
    /\ r_domain = <<>>
    /\ r_hist = <<>>
    /\ r_path = <<>>
    /\ CodecIdle

\* a request arrives; without a usable Host header the answer is a 500
Receive(t) ==
    /\ task[t].pc = "idle"
    /\ \E kind \in RequestKinds, body \in RequestBodies :
          task' = [task EXCEPT ![t] =
                      [IdleTask EXCEPT
                          !.kind = kind,
                          !.body = IF kind = "bancho" THEN body ELSE <<>>,
                          !.content_length = IF kind = "bancho" THEN Len(body) ELSE 0,
                          !.pc = IF kind = "nohost" THEN "done" ELSE "address",
                          !.status = IF kind = "nohost" THEN 500 ELSE 0]]
    /\ UNCHANGED <<codec_vars, preferences, lock, stream_vars, rewrite_vars>>

\* preferences.lock().await, at any of the places that take the lock
Acquire(t, from, to) ==
    /\ task[t].pc = from
    /\ lock = "free"
    /\ lock' = t
    /\ task' = [task EXCEPT ![t].pc = to]
    /\ UNCHANGED <<codec_vars, preferences, stream_vars, rewrite_vars>>

LockForAddress(t) == Acquire(t, "address", "address_locked")

\* faulty variant: the guard of the server_address read outlives its block
ReadAddress_keeps_guard(t) ==
    /\ task[t].pc = "address_locked"
    /\ lock = t
    /\ task' = [task EXCEPT ![t].target_domain = preferences.server_address,
                            ![t].pc = "request"]
    /\ UNCHANGED <<codec_vars, preferences, lock, stream_vars, rewrite_vars>>

\* preferences.server_address.clone(); the guard is dropped with its block
ReadAddress(t) ==
    /\ task[t].pc = "address_locked"
    /\ lock = t
    /\ lock' = "free"
    /\ task' = [task EXCEPT ![t].target_domain = preferences.server_address,
                            ![t].pc = "request"]
    /\ UNCHANGED <<codec_vars, preferences, stream_vars, rewrite_vars>>

\* a request that is not a POST / with an osu-token goes on as it came
ForwardUntouched(t) ==
    /\ task[t].pc = "request"
    /\ task[t].kind # "bancho"
    /\ task' = [task EXCEPT ![t].pc = "send"]
    /\ UNCHANGED <<codec_vars, preferences, lock, stream_vars, rewrite_vars>>

\* .unwrap() on the result d of decode_bancho_packets: the packets, or the
\* panic of the task
Unwrapped(t, d, to) ==
    IF d.st = "Ok"
    THEN [task EXCEPT ![t].packets = d.v, ![t].pc = to]
    ELSE [task EXCEPT ![t].pc = "panicked", ![t].fatal = TRUE, ![t].status = 0,
                      ![t].body = <<>>, ![t].content_length = 0]

DecodeRequest(t) ==
    /\ task[t].pc = "request"
    /\ task[t].kind = "bancho"
    /\ task' = Unwrapped(t, decode_bancho_packets(task[t].body), "request_lock")
    /\ UNCHANGED <<codec_vars, preferences, lock, stream_vars, rewrite_vars>>

LockForRequest(t) == Acquire(t, "request_lock", "request_locked")

\* the pass over the request, the new body and its Content-Length; the guard
\* is dropped with the block
ProcessRequest(t) ==
    /\ task[t].pc = "request_locked"
    /\ lock = t
    /\ LET r == process_bancho_packets(preferences, task[t].packets, task[t].target_domain)
           body_bytes == encode_bancho_packets(r.packets)
       IN  /\ preferences' = r.preferences
           /\ task' = [task EXCEPT ![t].packets = <<>>,
                                   ![t].body = body_bytes,
                                   ![t].content_length = Len(body_bytes),
                                   ![t].pc = "send"]
    /\ lock' = "free"
    /\ UNCHANGED <<codec_vars, stream_vars, rewrite_vars>>

\* client.request(req).await is Ok(response)
BackendResponds(t) ==
    /\ task[t].pc = "send"
    /\ \E body \in ResponseBodies :
          LET answer == IF task[t].kind \in {"bancho", "login"} THEN body ELSE <<>>
          IN  task' = [task EXCEPT
                          ![t].status = 200,
                          ![t].body = answer,
                          ![t].content_length = Len(answer),
                          ![t].pc = CASE task[t].kind \in {"bancho", "login"} -> "response"
                                      [] task[t].kind = "download" -> "download"
                                      [] OTHER -> "done"]
    /\ UNCHANGED <<codec_vars, preferences, lock, stream_vars, rewrite_vars>>

\* client.request(req).await is Err(err)
BackendFails(t) ==
    /\ task[t].pc = "send"
    /\ task' = [task EXCEPT ![t].status = 500, ![t].body = <<>>,
                            ![t].content_length = 0, ![t].pc = "done"]
    /\ UNCHANGED <<codec_vars, preferences, lock, stream_vars, rewrite_vars>>

DecodeResponse(t) ==
    /\ task[t].pc = "response"
    /\ task' = Unwrapped(t, decode_bancho_packets(task[t].body), "response_lock")
    /\ UNCHANGED <<codec_vars, preferences, lock, stream_vars, rewrite_vars>>

LockForResponse(t) == Acquire(t, "response_lock", "response_locked")

\* the pass over the response; Response::from_parts keeps the headers
ProcessResponse(t) ==
    /\ task[t].pc = "response_locked"
    /\ lock = t
    /\ LET r == process_bancho_packets(preferences, task[t].packets, task[t].target_domain)
           body_bytes == encode_bancho_packets(r.packets)
       IN  /\ preferences' = r.preferences
           /\ task' = [task EXCEPT ![t].packets = <<>>,
                                   ![t].body = body_bytes,
                                   ![t].pc = "done"]
    /\ lock' = "free"
    /\ UNCHANGED <<codec_vars, stream_vars, rewrite_vars>>

LockForDownload(t) == Acquire(t, "download", "download_locked")

\* the redirect to the beatmap mirror, unless it is the server's own
Redirect(t) ==
    /\ task[t].pc = "download_locked"
    /\ lock = t
    /\ task' = [task EXCEPT
                   ![t].status = IF preferences.beatmap_mirror = "ServerDefault" THEN @
                                 ELSE 302,
                   ![t].pc = "done"]
    /\ lock' = "free"
    /\ UNCHANGED <<codec_vars, preferences, stream_vars, rewrite_vars>>

\* the exchange is over; the task serves the next request
Finish(t) ==
    /\ task[t].pc \in {"done", "panicked"}
    /\ task' = [task EXCEPT ![t] = IdleTask]
    /\ UNCHANGED <<codec_vars, preferences, lock, stream_vars, rewrite_vars>>

\* the text the server address field can hold after a frame: the model
\* leaves the address as it is
TypedAddresses == {preferences.server_address}

\* one frame of the UI: tokio_rt.block_on(preferences.lock())
UiLock ==
    /\ lock = "free"
    /\ lock' = "ui"
    /\ UNCHANGED <<codec_vars, preferences, task, stream_vars, rewrite_vars>>

\* the widgets write the fields they show; the guard is dropped with the frame
UiUpdate ==
    /\ lock = "ui"
    /\ \E fs \in BOOLEAN, a \in TypedAddresses,
          m \in Mirrors, fc \in {None, Some("Japan")} :
          preferences' = [preferences EXCEPT !.fake_supporter = fs,
                                             !.server_address = a,
                                             !.beatmap_mirror = m,
                                             !.fake_country = fc]
    /\ lock' = "free"
    /\ UNCHANGED <<codec_vars, task, stream_vars, rewrite_vars>>

Next ==
    \/ \E t \in Tasks :
          \/ Receive(t)
          \/ LockForAddress(t)
          \/ ReadAddress(t)
          \/ ForwardUntouched(t)
          \/ DecodeRequest(t)
          \/ LockForRequest(t)
          \/ ProcessRequest(t)
          \/ BackendResponds(t)
          \/ BackendFails(t)
          \/ DecodeResponse(t)
          \/ LockForResponse(t)
          \/ ProcessResponse(t)
          \/ LockForDownload(t)
          \/ Redirect(t)
          \/ Finish(t)
    \/ UiLock
    \/ UiUpdate

Spec == Init /\ [][Next]_vars

\* the exchange of task t is over
Ended(t) == task[t].pc \in {"done", "panicked"}

\* C10 as stated: an exchange in which decoding a body hit a fatal error ends
\* with a 5xx response to the client.
C10_FatalDecodeAnswers5xx ==
    \A t \in Tasks :
        (Ended(t) /\ task[t].fatal) =>
            task[t].status >= 500

\* the request of task t goes to the backend with the body the pass encoded
RequestSubstituted(t) == task[t].pc = "send" /\ task[t].kind = "bancho"

\* the response of the backend goes to the client with the body the pass
\* encoded
ResponseSubstituted(t) ==
    task[t].pc = "done" /\ task[t].kind \in {"bancho", "login"} /\ task[t].status = 200

\* C11 as stated: a forwarded message whose body was replaced by a re-encoded
\* one, request or response, carries a Content-Length equal to the length of
\* the new body.
C11_ContentLengthIsBodyLength ==
    \A t \in Tasks :
        (RequestSubstituted(t) \/ ResponseSubstituted(t)) =>
            task[t].content_length = Len(task[t].body)

\* task t is between the start of decoding a body and the end of re-encoding
\* it
InPass(t) ==
    task[t].pc \in {"request_lock", "request_locked", "response_lock", "response_locked"}

\* C12 as stated: from the start of decoding a body to the end of re-encoding
\* it the task holds the Preferences lock, so nobody else holds it meanwhile
\* and the passes of two tasks never overlap.
C12_LockHeldFromDecodeToEncode ==
    /\ \A t \in Tasks : InPass(t) => lock = t
    /\ \A t, u \in Tasks : (InPass(t) /\ InPass(u)) => t = u

\* ------------------------------------------------------------------------
\* The proxy under fair scheduling
\* ------------------------------------------------------------------------

\* the code between preferences.lock().await and the end of the block that
\* owns the guard: it awaits no I/O, so a task that holds the lock goes on
Holding(t) == ReadAddress(t) \/ ProcessRequest(t) \/ ProcessResponse(t) \/ Redirect(t)

\* preferences.lock().await: tokio's Mutex hands the lock out in the order of
\* the requests for it, so a task that waits is not passed over forever
Acquiring(t) ==
    LockForAddress(t) \/ LockForRequest(t) \/ LockForResponse(t) \/ LockForDownload(t)

\* task t waits in preferences.lock().await
Waiting(t) ==
    task[t].pc \in {"address", "request_lock", "response_lock", "download"}

\* task t is past a preferences.lock().await, in the block that owns the guard
Locked(t) ==
    task[t].pc \in {"address_locked", "request_locked", "response_locked",
                    "download_locked"}

\* weak fairness of Holding(t), written out: Holding(t) is enabled exactly
\* when Locked(t)
HoldingGoesOn(t) == []<>(~Locked(t)) \/ []<><<Holding(t)>>_vars

\* the UI frame ends (WF of UiUpdate), a task that holds the lock goes on, and
\* a task that waits for the lock gets it when it is free again and again
LiveSpec ==
    /\ Spec
    /\ \A t \in Tasks : HoldingGoesOn(t) /\ SF_vars(Acquiring(t))
    /\ WF_vars(UiUpdate)

\* the step in which client.request(req).await fails for task t
BackendFailed(t) ==
    task[t].pc = "send" /\ task'[t].pc = "done" /\ task'[t].status = 500

MaxStringLen == 2

\* pieces of UTF-8 text: NUL, 0x0b, "a", and the two bytes of U+00E9
Units == {<<0>>, <<11>>, <<97>>, <<195, 169>>}

RECURSIVE Concats(_)
\* the texts of at most n pieces
Concats(n) ==
    IF n = 0 THEN {<<>>}
    ELSE Concats(n - 1) \cup {u \o t : u \in Units, t \in Concats(n - 1)}

\* a text of n bytes
Filled(n) == [i \in 1..n |-> 97]

\* the strings written: short ones, and ones whose length takes one byte, two
\* bytes and three bytes of ULEB128
CodecStrings == Concats(MaxStringLen) \cup {Filled(n) : n \in {127, 128, 16384}}

\* the u64 values written: k low septets all 0 or all 1, and the septet above
\* them 0, 1 or all 1; among them 0, 2^7 - 1, 2^7, 2^63 and u64::MAX
CodecU64s ==
    {[i \in 1..U64Digits |->
        IF i <= k THEN d
        ELSE IF i = k + 1 THEN (IF i = U64Digits /\ e > 1 THEN 1 ELSE e)
        ELSE 0] : k \in 0..(U64Digits - 1), d \in {0, 127}, e \in {0, 1, 127}}

\* i32::MIN, -1, 0, 1, i32::MAX; as u32 images 0x80000000, 0xFFFFFFFF, ...
Codec32s == {(0 - Two31m1) - 1, 0 - 1, 0, 1, Two31m1}

\* f32 images: 0.0, 1.0, -0.0 and a NaN
CodecF32s == {0, 1065353216, (0 - Two31m1) - 1, 2143289344}

CodecFieldStrings == {<<>>, <<97>>, <<11>>, <<0>>, Filled(128)}

\* values of the known packet variants
CodecPackets ==
    {[kind |-> "ChangeAction", action |-> UserAction[a], info_text |-> s,
      map_md5 |-> t, mods |-> m, mode |-> b, map_id |-> m]
        : a \in 1..Len(UserAction), s \in {<<>>, <<97>>}, t \in {<<>>, Filled(128)},
          m \in {0 - 1, 0}, b \in {0, 255}}
    \cup {[kind |-> k, message |-> [sender |-> s, text |-> t, recipient |-> r,
                                    sender_id |-> n]]
            : k \in {"SendPublicMessage", "SendMessage", "SendPrivateMessage"},
              s \in {<<>>, <<97>>}, t \in CodecFieldStrings, r \in {<<>>, <<11>>},
              n \in {0 - 1, Two31m1}}
    \cup {[kind |-> "UserId", user_id |-> n] : n \in Codec32s}
    \cup {[kind |-> "Privilege", privileges_bitfield |-> n] : n \in Codec32s}
    \cup {[kind |-> "UserPresence", user_id |-> n, name |-> s, utc_offset |-> b,
           country_code |-> 255 - b, bancho_privileges |-> b, longitude |-> f,
           latitude |-> g, global_rank |-> n]
            : n \in {(0 - Two31m1) - 1, 7}, s \in CodecFieldStrings, b \in {0, 255},
              f \in CodecF32s, g \in CodecF32s}

\* the bytes that follow the written value in the buffer
Following == <<1, 97>>

CodecInit ==
    /\ c_pc = "value"
    /\ \/ c_value \in {[codec |-> "packet", x |-> x] : x \in CodecPackets}
       \/ c_value \in {[codec |-> "string", x |-> x] : x \in CodecStrings}
       \/ c_value \in {[codec |-> "uleb128", x |-> x] : x \in CodecU64s}
    /\ c_bytes = <<>>
    /\ c_result = [st |-> "None"]
    /\ preferences \in {p \in DefaultPreferences : p.server_address = ReleaseServerAddress}
    /\ lock = "free"
    /\ task = <<>>
    /\ s_pc = "none"
    /\ s_frames = <<>>
    /\ s_tail = <<>>
    /\ s_domain = <<>>
    /\ s_pre = preferences
    /\ s_decoded = [st |-> "None"]
    /\ s_processed = <<>>
    /\ s_out = <<>>
    /\ s_redecoded = [st |-> "None"]
    /\ r_domain = <<>>
    /\ r_hist = <<>>
    /\ r_path = <<>>

\* a value of the given codec is written by `written`
Written(codec, written) ==
    /\ c_pc = "value"
    /\ c_value.codec = codec
    /\ c_bytes' = written
    /\ c_pc' = "encoded"
    /\ UNCHANGED <<c_value, c_result, preferences, proxy_vars, stream_vars, rewrite_vars>>

\* the written bytes, with what follows them in the buffer, are read: `read`
ReadBack(codec, read) ==
    /\ c_pc = "encoded"
    /\ c_value.codec = codec
    /\ c_result' = read
    /\ c_pc' = "decoded"
    /\ UNCHANGED <<c_value, c_bytes, preferences, proxy_vars, stream_vars, rewrite_vars>>

\* packet.to_bytes(): the header and encode()
EncodePacket == Written("packet", to_bytes(c_value.x))

\* from_bytes on the header, from_header_and_bytebuf on what follows it
DecodePacket ==
    ReadBack("packet",
             from_header_and_bytebuf(from_bytes(SubSeq(c_bytes, 1, HeaderLen)),
                                     c_bytes \o Following, HeaderLen))

WriteString == Written("string", write_osu_string(c_value.x))

ReadString == ReadBack("string", read_osu_string(c_bytes \o Following, 0))

WriteUleb128 == Written("uleb128", write_uleb128(c_value.x))

ReadUleb128 == ReadBack("uleb128", read_uleb128(c_bytes \o Following, 0))

CodecNext ==
    \/ EncodePacket
    \/ DecodePacket
    \/ WriteString
    \/ ReadString
    \/ WriteUleb128
    \/ ReadUleb128

SpecCodec == CodecInit /\ [][CodecNext]_vars

\* ------------------------------------------------------------------------
\* Properties of the codec (SpecCodec)
\* ------------------------------------------------------------------------

\* a value of the given codec was written and read back
ReadBackDone(codec) == c_pc = "decoded" /\ c_value # <<>> /\ c_value.codec = codec

\* C14: for a value x of a known packet variant, the bytes that follow the
\* header are encode(x), the header carries x.id(), and decoding under that
\* header returns a packet equal to x field for field, having consumed the
\* encoded bytes and none of the bytes after them.
C14_VariantRoundTrip ==
    ReadBackDone("packet") =>
        /\ c_bytes = SubSeq(c_bytes, 1, HeaderLen) \o encode(c_value.x)
        /\ from_bytes(SubSeq(c_bytes, 1, HeaderLen)).id = id(c_value.x)
        /\ c_result.st = "Ok"
        /\ c_result.v = c_value.x
        /\ c_result.pos = HeaderLen + Len(encode(c_value.x))

\* a UserPresence with a name of 128 bytes and a NaN came back
C14_Witness ==
    /\ ReadBackDone("packet")
    /\ c_value.x.kind = "UserPresence"
    /\ Len(c_value.x.name) = 128
    /\ c_value.x.longitude = 2143289344
    /\ c_result.st = "Ok"

RECURSIVE Uleb128OfNat(_)
\* ULEB128 of a natural: septets from the lowest, each but the last with the
\* high-order bit set
Uleb128OfNat(n) ==
    IF n < 128 THEN <<n>> ELSE <<128 + (n % 128)>> \o Uleb128OfNat(n \div 128)

\* C15: the empty string is written as the single byte 0x00, a non-empty
\* string as 0x0b, the ULEB128 of its byte length and its bytes; reading
\* either gives back the string and consumes the written bytes and none of
\* the bytes after them (one byte for 0x00).
C15_OsuStringRoundTrip ==
    (c_value # <<>> /\ c_value.codec = "string" /\ c_pc \in {"encoded", "decoded"}) =>
        /\ c_bytes = IF c_value.x = <<>> THEN <<0>>
                     ELSE <<11>> \o Uleb128OfNat(Len(c_value.x)) \o c_value.x
        /\ c_pc = "decoded" =>
              /\ c_result.st = "Ok"
              /\ c_result.v = c_value.x
              /\ c_result.pos = Len(c_bytes)
              /\ c_value.x = <<>> => c_result.pos = 1

\* a string of 128 bytes, whose length takes two bytes, came back
C15_Witness ==
    /\ ReadBackDone("string")
    /\ Len(c_value.x) = 128
    /\ SubSeq(c_bytes, 1, 3) = <<11, 128, 1>>
    /\ c_result.st = "Ok"

\* the value of shift when read_uleb128 returns after n bytes
ShiftAfter(n) == 7 * (n - 1)

\* C16: read_uleb128 on the bytes write_uleb128 wrote for a u64 returns that
\* u64, without the overflow panic, having consumed exactly the bytes written;
\* the shift stays at or below 63.
C16_Uleb128RoundTrip ==
    ReadBackDone("uleb128") =>
        /\ c_result.st = "Ok"
        /\ c_result.v = c_value.x
        /\ c_result.pos = Len(c_bytes)
        /\ ShiftAfter(c_result.pos) <= 63

\* u64::MAX came back from its ten bytes
C16_Witness ==
    /\ ReadBackDone("uleb128")
    /\ c_value.x = U64Not(U64Zero)
    /\ Len(c_bytes) = 10
    /\ c_result.st = "Ok"

\* ------------------------------------------------------------------------
\* Further properties of one body pass (SpecStream)
\* ------------------------------------------------------------------------

\* the pass has to drop the packet
IsDropped(p) == IsChangeAction(p) /\ p.action = "OsuDirect" /\ s_pre.fake_supporter

RECURSIVE KeptFrom(_)
\* the positions, from k on, of the decoded packets the pass has to keep
KeptFrom(k) ==
    IF k > Len(s_decoded.v) THEN <<>>
    ELSE (IF IsDropped(s_decoded.v[k]) THEN <<>> ELSE <<k>>) \o KeptFrom(k + 1)

\* no rule of the pass applies to decoded packet k
NoRuleApplies(k) ==
    LET p == s_decoded.v[k]
    IN  \/ p.kind \in {"Other", "UserId"}
        \/ IsChangeAction(p) /\ ~IsDropped(p)
        \/ IsMessage(p) /\ ~contains(p.message.text, NowPlayingMarker)
        \/ IsPrivilege(p) /\ ~s_pre.fake_supporter
        \/ IsUserPresence(p) /\ ~(/\ s_pre.fake_country.some
                                  /\ StoredUserId(k).some
                                  /\ StoredUserId(k).v = p.user_id)

\* q is p, but for the one field the rule of its variant may write
SameButRuleField(p, q) ==
    /\ q.kind = p.kind
    /\ CASE IsMessage(p) -> [q EXCEPT !.message.text = p.message.text] = p
         [] IsPrivilege(p) -> [q EXCEPT !.privileges_bitfield = p.privileges_bitfield] = p
         [] IsUserPresence(p) -> [q EXCEPT !.country_code = p.country_code] = p
         [] OTHER -> q = p

\* C17: the output of the pass is the decoded sequence without the
\* ChangeAction(OsuDirect) packets it has to drop: the kept packets stand in
\* their order, none added or repeated, each the packet it was but for the
\* field its rule writes, and identical where no rule applies.
C17_StableFilter ==
    Processed =>
        LET kept == KeptFrom(1)
        IN  /\ Len(s_processed) = Len(kept)
            /\ \A k \in 1..Len(kept) :
                  /\ SameButRuleField(s_decoded.v[kept[k]], s_processed[k])
                  /\ NoRuleApplies(kept[k]) => s_processed[k] = s_decoded.v[kept[k]]

\* an unknown packet and a Privilege packet went through with fake_supporter:
\* the first as it was, the second changed, in their order
C17_Witness ==
    /\ Processed
    /\ s_pre.fake_supporter
    /\ Len(s_decoded.v) = 2
    /\ s_decoded.v[1].kind = "Other"
    /\ IsPrivilege(s_decoded.v[2])
    /\ Len(s_processed) = 2
    /\ s_processed[1] = s_decoded.v[1]
    /\ s_processed[2] # s_decoded.v[2]

RECURSIVE Advances(_, _)
\* the packets decode_bancho_packets decodes from position pos on, each with
\* its header and the number of bytes the read position moved over it
Advances(bytes, pos) ==
    IF Len(bytes) - pos < HeaderLen THEN <<>>
    ELSE LET header == from_bytes(SubSeq(bytes, pos + 1, pos + HeaderLen))
             packet == from_header_and_bytebuf(header, bytes, pos + HeaderLen)
         IN  IF packet.st # "Ok" THEN <<>>
             ELSE <<[header |-> header, packet |-> packet.v,
                     advance |-> packet.pos - pos]>> \o Advances(bytes, packet.pos)

\* C18 as stated: over every packet it decodes, of a known variant or Other,
\* the decoder moves by 7 + header.length bytes.
C18_AdvanceIsHeaderLength ==
    Decoded =>
        LET adv == Advances(Body(s_frames, s_tail), 0)
        IN  \A i \in 1..Len(adv) : adv[i].advance = HeaderLen + adv[i].header.length

\* C18 amended: over an Other packet the decoder moves by 7 + header.length
\* bytes; over a packet of a known variant it moves by 7 + the bytes of the
\* variant's fields, whatever the header says, which is 7 + header.length
\* when the length field is the true payload length.
C18_AdvanceIsFieldBytes ==
    Decoded =>
        LET adv == Advances(Body(s_frames, s_tail), 0)
        IN  /\ \A i \in 1..Len(adv) :
                  adv[i].packet.kind = "Other" =>
                      adv[i].advance = HeaderLen + adv[i].header.length
            /\ \A i \in 1..Len(s_frames) :
                  (Aligned(i) /\ Parses(s_frames[i])) =>
                      /\ i <= Len(adv)
                      /\ adv[i].advance = HeaderLen + Len(s_frames[i].data)
                      /\ WellFormed(s_frames[i]) =>
                            adv[i].advance = HeaderLen + s_frames[i].length

\* a UserId packet whose header declares 100 payload bytes was decoded from
\* its 4, and the next header was read right after them
C18_Witness ==
    /\ s_pc = "decoded"
    /\ Len(s_frames) = 2
    /\ s_frames[1] = Frame(5, 0, 100, <<42, 0, 0, 0>>)
    /\ WellFormed(s_frames[2])
    /\ s_decoded.st = "Ok"
    /\ Len(s_decoded.v) = 2

=============================================================================
